---------------------------- MODULE Spec2Model ----------------------------
(***************************************************************************)
(* Model of manual_transform.py: the two column rule sets                  *)
(* (apply_enrollment_transforms, apply_usage_transforms), the serializer   *)
(* call and quote cleanup pass (transform_excel_data,                      *)
(* find_and_replace_quotes) and the batch loop of the main block.          *)
(*                                                                         *)
(* A text is a sequence of one-character strings.  A cell is a record      *)
(* [na, s]: na = TRUE is a null cell (pandas NaN/None), otherwise s is the *)
(* cell's text.  Cells hold text only, so the source's astype(str) is the  *)
(* identity on them.  A row-set (DataFrame) is a function from the present *)
(* column names to the sequence of that column's cells, one per row.       *)
(***************************************************************************)
EXTENDS Integers, Sequences, FiniteSets, TLC

VARIABLES
    mode,            \* which part of the program this behaviour exercises
    build,           \* [signAware, linesep]: what the installed pandas / OS fix
    category,        \* rule set selected for the row-set ("enrollment"/"usage")
    df0,             \* the row-set as read from the source file
    df,              \* the row-set being transformed in place
    applied,         \* rule blocks already applied to df
    padIn,           \* ZeroPad: input cell, width and result
    padWidth,
    padOut,
    content,         \* the intermediate artifact: [exists, data]
    output,          \* the final artifact
    cellX,           \* wrap round trip: the cell text and the wrapping rule
    wrapKind,
    files,           \* batch: listing of the target folder
    idx,             \* batch: position of the loop in the listing
    pc,              \* batch: position inside the loop body
    processed_count, \* batch: running counter
    log              \* batch: per entry, what was done and which artifacts exist

vars == <<mode, build, category, df0, df, applied, padIn, padWidth, padOut,
          content, output, cellX, wrapKind, files, idx, pc, processed_count, log>>

---------------------------------------------------------------------------
\* Bounds of the model.
MaxRows == 1
MaxCols == 2
MaxPadLen == 5
MaxTextLen == 6
MaxCellLen == 3
MaxFiles == 3

---------------------------------------------------------------------------
\* Characters.
DQ == "\""
SQ == "'"
CR == "\r"
LF == "\n"
DOT == "."
COMMA == ","
ZERO == "0"

\* A file of the folder: absent, or present with its bytes (a text; the model's
\* characters are ASCII, which UTF-8 encodes one byte each).
NoFile == [exists |-> FALSE, data |-> <<>>]
File(t) == [exists |-> TRUE, data |-> t]

Null == [na |-> TRUE, s |-> <<>>]
Str(t) == [na |-> FALSE, s |-> t]

\* All texts over alphabet A of length at most n.
Texts(A, n) == UNION {[1..k -> A] : k \in 0..n}

RECURSIVE Repeat(_, _)
Repeat(c, n) == IF n <= 0 THEN <<>> ELSE <<c>> \o Repeat(c, n - 1)

\* Index of the first occurrence of c in t, or 0.
RECURSIVE FindFrom(_, _, _)
FindFrom(t, c, i) ==
    IF i > Len(t) THEN 0
    ELSE IF t[i] = c THEN i
    ELSE FindFrom(t, c, i + 1)

Contains(t, c) == \E i \in 1..Len(t) : t[i] = c

---------------------------------------------------------------------------
\* Per-cell transforms of the rule sets.

\* lambda x: f'"{x}"'
QuoteWrapText(x) == <<DQ>> \o x \o <<DQ>>

\* lambda x: f'"\'{x}\'"'
CustomWrapText(x) == <<DQ, SQ>> \o x \o <<SQ, DQ>>

\* .str.split('.').str[0]: the text before the first '.', all of it if none.
SplitDotFirst(t) ==
    LET i == FindFrom(t, DOT, 1)
    IN  IF i = 0 THEN t ELSE SubSeq(t, 1, i - 1)

\* Variant: a fixed-width format that cuts a longer text to w characters.
ZfillTruncating(t, w) ==
    IF Len(t) >= w THEN SubSeq(t, 1, w)
    ELSE IF build.signAware /\ Len(t) > 0 /\ t[1] \in {"+", "-"}
         THEN <<t[1]>> \o Repeat(ZERO, w - Len(t)) \o Tail(t)
         ELSE Repeat(ZERO, w - Len(t)) \o t

\* Series.str.zfill(w).  pandas >= 1.5 follows Python's str.zfill and puts the
\* zeros after a leading sign; older releases pad on the left whatever the
\* text starts with (rjust(w, '0')).  build.signAware says which is installed.
Zfill(t, w) ==
    IF Len(t) >= w THEN t
    ELSE IF build.signAware /\ Len(t) > 0 /\ t[1] \in {"+", "-"}
         THEN <<t[1]>> \o Repeat(ZERO, w - Len(t)) \o Tail(t)
         ELSE Repeat(ZERO, w - Len(t)) \o t

\* .astype(str).str.split('.').str[0].str.zfill(length)
ZeroPadText(t, w) == Zfill(SplitDotFirst(t), w)

\* .str.replace(',', '')
StripCommaText(t) == SelectSeq(t, LAMBDA c : c # COMMA)

\* pd.to_datetime(..., errors='coerce').dt.strftime('%Y-%m-%d'), cell by cell,
\* for the texts the model's row-sets carry: a year-month-day text with '-'
\* separators parses (month and day with or without a leading zero), anything
\* else that is not a date is coerced to NaT, and strftime renders NaT as null.
DigitChars == <<"0", "1", "2", "3", "4", "5", "6", "7", "8", "9">>
IsDigit(c) == \E k \in 1..10 : DigitChars[k] = c
DigitVal(c) == (CHOOSE k \in 1..10 : DigitChars[k] = c) - 1

RECURSIVE SplitOn(_, _)
SplitOn(t, c) ==
    LET i == FindFrom(t, c, 1)
    IN  IF i = 0 THEN <<t>>
        ELSE <<SubSeq(t, 1, i - 1)>> \o SplitOn(SubSeq(t, i + 1, Len(t)), c)

IsNumber(p) == Len(p) > 0 /\ \A i \in 1..Len(p) : IsDigit(p[i])

RECURSIVE NumVal(_)
NumVal(p) ==
    IF p = <<>> THEN 0
    ELSE 10 * NumVal(SubSeq(p, 1, Len(p) - 1)) + DigitVal(p[Len(p)])

IsLeap(y) == (y % 4 = 0 /\ y % 100 # 0) \/ y % 400 = 0

DaysIn(y, m) ==
    IF m = 2 THEN (IF IsLeap(y) THEN 29 ELSE 28)
    ELSE IF m \in {4, 6, 9, 11} THEN 30 ELSE 31

Pad2(p) == IF Len(p) < 2 THEN <<ZERO>> \o p ELSE p

ToDatetimeStrftime(cell) ==
    IF cell.na THEN Null
    ELSE LET parts == SplitOn(cell.s, "-")
         IN  IF /\ Len(parts) = 3
                /\ \A k \in 1..3 : IsNumber(parts[k])
                /\ Len(parts[1]) = 4
                /\ Len(parts[2]) \in 1..2
                /\ Len(parts[3]) \in 1..2
                /\ NumVal(parts[1]) \in 1678..2261
                /\ NumVal(parts[2]) \in 1..12
                /\ NumVal(parts[3]) \in 1..DaysIn(NumVal(parts[1]), NumVal(parts[2]))
             THEN Str(parts[1] \o <<"-">> \o Pad2(parts[2]) \o <<"-">> \o Pad2(parts[3]))
             ELSE Null

---------------------------------------------------------------------------
\* Per-column rule application on a row-set.

\* The text a masked rule of the given type writes for the text t.
CellText(type, w, t) ==
    CASE type = "QuoteWrap"      -> QuoteWrapText(t)
      [] type = "CustomWrap"     -> CustomWrapText(t)
      [] type = "ZeroPad"        -> ZeroPadText(t, w)
      [] type = "StripSeparator" -> StripCommaText(t)

\* Variant: the mask is forgotten and the rule runs on every cell; astype(str)
\* renders a null cell as the text nan.
MaskedApplyNoMask(d, col, type, w) ==
    IF col \in DOMAIN d
    THEN [d EXCEPT ![col] =
            [r \in 1..Len(@) |->
                Str(CellText(type, w, IF @[r].na THEN <<"n", "a", "n">> ELSE @[r].s))]]
    ELSE d

\* if col in df.columns:
\*     mask = df[col].notna()
\*     df.loc[mask, col] = df.loc[mask, col].astype(str).<transform>
MaskedApply(d, col, type, w) ==
    IF col \in DOMAIN d
    THEN [d EXCEPT ![col] =
            [r \in 1..Len(@) |->
                IF @[r].na THEN @[r] ELSE Str(CellText(type, w, @[r].s))]]
    ELSE d

\* Variant: the presence check is dropped; assigning to a missing column of a
\* DataFrame creates it.
DateFormatNoCheck(d, col) ==
    IF col \in DOMAIN d
    THEN [d EXCEPT ![col] = [r \in 1..Len(@) |-> ToDatetimeStrftime(@[r])]]
    ELSE (col :> [r \in 1..MaxRows |-> Null]) @@ d

\* if col in df.columns: df[col] = pd.to_datetime(df[col], ...).dt.strftime(...)
DateFormat(d, col) ==
    IF col \in DOMAIN d
    THEN [d EXCEPT ![col] = [r \in 1..Len(@) |-> ToDatetimeStrftime(@[r])]]
    ELSE d

Rule(type, col, width) == [type |-> type, col |-> col, width |-> width]

ApplyRule(r, d) ==
    IF r.type = "DateFormat" THEN DateFormat(d, r.col)
    ELSE MaskedApply(d, r.col, r.type, r.width)

\* A block of the source (one loop over a column list, or one if-statement):
\* its rules in source order.
RECURSIVE ApplyBlock(_, _)
ApplyBlock(b, d) ==
    IF b = <<>> THEN d ELSE ApplyBlock(Tail(b), ApplyRule(Head(b), d))

RECURSIVE ApplyBlocks(_, _)
ApplyBlocks(bs, d) ==
    IF bs = <<>> THEN d ELSE ApplyBlocks(Tail(bs), ApplyBlock(Head(bs), d))

RulesOf(cols, type, width) == [k \in 1..Len(cols) |-> Rule(type, cols[k], width)]

\* Variant: CITY_GATE is also listed among the comma-stripped columns.
EnrollmentBlocksOverlap == <<
    RulesOf(<<"CUSTOMER_NAME", "CUSTOMER_SERVICE_ADDRESS",
              "CUSTOMER_SERVICE_CITY_STATE_ZIP", "TX_TAR_SHORT_DESC",
              "TX_TAR_SCH_DESC">>, "QuoteWrap", 0),
    <<Rule("CustomWrap", "TX_SERV_SUPP", 0)>>,
    RulesOf(<<"DT_EFF", "CUST_ENR_START_DATE", "CUST_EDI_DROP_DATE",
              "LAST_UPDATE">>, "DateFormat", 0),
    <<Rule("ZeroPad", "CITY_GATE", 4), Rule("ZeroPad", "KY_MTR_BILL_GRP", 2),
      Rule("ZeroPad", "CD_SERV_SUPP", 4)>>,
    RulesOf(<<"TOT_ANNUAL_USAGE", "CUST_PEAK_DAY", "CUST_BASE_LOAD",
              "CUST_THERMAL_RESPONSE", "CITY_GATE">>, "StripSeparator", 0) >>

\* The rule set of apply_enrollment_transforms, block by block.
EnrollmentBlocks == <<
    RulesOf(<<"CUSTOMER_NAME", "CUSTOMER_SERVICE_ADDRESS",
              "CUSTOMER_SERVICE_CITY_STATE_ZIP", "TX_TAR_SHORT_DESC",
              "TX_TAR_SCH_DESC">>, "QuoteWrap", 0),
    <<Rule("CustomWrap", "TX_SERV_SUPP", 0)>>,
    RulesOf(<<"DT_EFF", "CUST_ENR_START_DATE", "CUST_EDI_DROP_DATE",
              "LAST_UPDATE">>, "DateFormat", 0),
    <<Rule("ZeroPad", "CITY_GATE", 4), Rule("ZeroPad", "KY_MTR_BILL_GRP", 2),
      Rule("ZeroPad", "CD_SERV_SUPP", 4)>>,
    RulesOf(<<"TOT_ANNUAL_USAGE", "CUST_PEAK_DAY", "CUST_BASE_LOAD",
              "CUST_THERMAL_RESPONSE">>, "StripSeparator", 0) >>

\* The rule set of apply_usage_transforms, block by block.
UsageBlocks == <<
    RulesOf(<<"CUST_NAME", "CUST_SERV_ADDR", "CUST_SERV_CITY_ST_ZIP",
              "CUST_POOL_ID">>, "QuoteWrap", 0),
    RulesOf(<<"DT_LST_BLLD", "DT_RDG_FROM", "DT_RDG_TO", "DT_ENTERED">>,
            "DateFormat", 0),
    <<Rule("ZeroPad", "KY_MTR_BILL_GRP", 2)>>,
    <<Rule("ZeroPad", "CITY_GATE", 4)>>,
    <<Rule("ZeroPad", "CD_BILL_PRCS_INSTR", 4)>>,
    <<Rule("ZeroPad", "CD_SERV_SUPP", 4)>>,
    RulesOf(<<"USAGE", "QY_BTU_FACTOR">>, "StripSeparator", 0) >>

apply_enrollment_transforms(d) == ApplyBlocks(EnrollmentBlocks, d)

apply_usage_transforms(d) == ApplyBlocks(UsageBlocks, d)

BlocksOf(cat) == IF cat = "enrollment" THEN EnrollmentBlocks ELSE UsageBlocks

RECURSIVE Flatten(_)
Flatten(bs) == IF bs = <<>> THEN <<>> ELSE Head(bs) \o Flatten(Tail(bs))

\* Every column rule of a rule set, in source order.
EnrollmentRules == Flatten(EnrollmentBlocks)
UsageRules == Flatten(UsageBlocks)
RulesIn(cat) == IF cat = "enrollment" THEN EnrollmentRules ELSE UsageRules

---------------------------------------------------------------------------
\* Values of the variables a behaviour does not use.
IdleRules == category = "none" /\ df0 = <<>> /\ df = <<>> /\ applied = {}
IdlePad == padIn = Null /\ padWidth = 0 /\ padOut = Null
IdleCsv == content = NoFile /\ output = NoFile /\ cellX = <<>> /\ wrapKind = "none"
IdleBatch == files = <<>> /\ idx = 0 /\ processed_count = 0 /\ log = <<>>

rulesVars == <<category, df0, df, applied>>
padVars == <<padIn, padWidth, padOut>>
csvVars == <<content, output, cellX, wrapKind>>
batchVars == <<files, idx, processed_count, log>>

\* What the installation fixes: whether pandas' str.zfill is sign-aware, and
\* os.linesep.
Builds == [signAware : BOOLEAN, linesep : {<<LF>>, <<CR, LF>>}]
PosixBuilds == {b \in Builds : b.linesep = <<LF>>}

---------------------------------------------------------------------------
\* Row-sets the rule sets are run on.  The source file decides the column set;
\* the model takes up to MaxCols columns among a sample of the names the rules
\* know (one per rule type) and one name no rule of the set targets.
EnrollmentColumns ==
    {"CUSTOMER_NAME", "TX_SERV_SUPP", "DT_EFF", "CITY_GATE", "TOT_ANNUAL_USAGE",
     "NOTES"}

UsageColumns ==
    {"CUST_NAME", "DT_ENTERED", "KY_MTR_BILL_GRP", "USAGE", "CUSTOMER_NAME"}

ColumnsOf(cat) == IF cat = "enrollment" THEN EnrollmentColumns ELSE UsageColumns

DateColumns == {"DT_EFF", "DT_ENTERED"}
PadColumns == {"CITY_GATE", "KY_MTR_BILL_GRP"}
NumberColumns == {"TOT_ANNUAL_USAGE", "USAGE"}

\* Cell values a column may carry in the source file.
CellPool(col) ==
    {Null} \cup
    IF col \in DateColumns
    THEN {Str(<<"2", "0", "2", "4", "-", "3", "-", "5">>), Str(<<"n", "/", "a">>)}
    ELSE IF col \in PadColumns
    THEN {Str(<<"1", "2", ".", "0">>), Str(<<"-", "7">>)}
    ELSE IF col \in NumberColumns
    THEN {Str(<<"1", ",", "2", "3", "4">>), Str(<<"1", "2">>)}
    ELSE {Str(<<"J", "o">>), Str(<<"a", ",", "b">>)}

\* Every row-set with column set S, MaxRows rows and cells from the pools.
RECURSIVE Frames(_)
Frames(S) ==
    IF S = {} THEN {<<>>}
    ELSE LET c == CHOOSE x \in S : TRUE
         IN  {(c :> col) @@ rest :
                 col \in [1..MaxRows -> CellPool(c)], rest \in Frames(S \ {c})}

RowSets(cat) ==
    UNION {Frames(S) : S \in {T \in SUBSET ColumnsOf(cat) : Cardinality(T) <= MaxCols}}

---------------------------------------------------------------------------
\* The rule engine: a row-set is read, the rule set its category selects is
\* applied to it in place.

InitRules ==
    /\ mode = "rules"
    /\ build \in PosixBuilds
    /\ category \in {"enrollment", "usage"}
    /\ df0 \in RowSets(category)
    /\ df = df0
    /\ applied = {}
    /\ pc = "loaded"
    /\ IdlePad /\ IdleCsv /\ IdleBatch

ApplyEnrollment ==
    /\ mode = "rules" /\ pc = "loaded" /\ category = "enrollment"
    /\ df' = apply_enrollment_transforms(df)
    /\ applied' = 1..Len(EnrollmentBlocks)
    /\ pc' = "transformed"
    /\ UNCHANGED <<mode, build, category, df0, padVars, csvVars, batchVars>>

ApplyUsage ==
    /\ mode = "rules" /\ pc = "loaded" /\ category = "usage"
    /\ df' = apply_usage_transforms(df)
    /\ applied' = 1..Len(UsageBlocks)
    /\ pc' = "transformed"
    /\ UNCHANGED <<mode, build, category, df0, padVars, csvVars, batchVars>>

NextRules == ApplyEnrollment \/ ApplyUsage

SpecRules == InitRules /\ [][NextRules]_vars

---------------------------------------------------------------------------
\* The rule engine with the blocks of a rule set applied in any order, each
\* once: the orders the source could have been written in.  Cells are null or
\* one text that every rule type rewrites, and rewrites differently.
OrderSample == Str(<<"-", "1", ",", "2", ".", "5">>)

RECURSIVE OrderFrames(_)
OrderFrames(S) ==
    IF S = {} THEN {<<>>}
    ELSE LET c == CHOOSE x \in S : TRUE
         IN  {(c :> col) @@ rest :
                 col \in [1..MaxRows -> {Null, OrderSample}],
                 rest \in OrderFrames(S \ {c})}

OrderRowSets(cat) ==
    UNION {OrderFrames(S) :
              S \in {T \in SUBSET ColumnsOf(cat) : Cardinality(T) <= MaxCols}}

InitAnyOrder ==
    /\ mode = "anyorder"
    /\ build \in PosixBuilds
    /\ category \in {"enrollment", "usage"}
    /\ df0 \in OrderRowSets(category)
    /\ df = df0
    /\ applied = {}
    /\ pc = "loaded"
    /\ IdlePad /\ IdleCsv /\ IdleBatch

ApplyAnyBlock ==
    /\ mode = "anyorder" /\ pc = "loaded"
    /\ \E k \in (1..Len(BlocksOf(category))) \ applied :
          /\ df' = ApplyBlock(BlocksOf(category)[k], df)
          /\ applied' = applied \cup {k}
          /\ pc' = IF applied' = 1..Len(BlocksOf(category))
                   THEN "transformed" ELSE "loaded"
    /\ UNCHANGED <<mode, build, category, df0, padVars, csvVars, batchVars>>

NextAnyOrder == ApplyAnyBlock

SpecAnyOrder == InitAnyOrder /\ [][NextAnyOrder]_vars

---------------------------------------------------------------------------
\* ZeroPad on one cell: a zero-padding rule of the source is run on a column
\* holding the cell.
PadAlphabet == {"7", "0", ".", "-", "+"}
PadWidths ==
    {EnrollmentRules[k].width : k \in {i \in 1..Len(EnrollmentRules) :
                                          EnrollmentRules[i].type = "ZeroPad"}}
    \cup {UsageRules[k].width : k \in {i \in 1..Len(UsageRules) :
                                          UsageRules[i].type = "ZeroPad"}}

InitPad ==
    /\ mode = "pad"
    /\ build \in PosixBuilds
    /\ padIn \in {Null} \cup {Str(t) : t \in Texts(PadAlphabet, MaxPadLen)}
    /\ padWidth \in PadWidths
    /\ padOut = Null
    /\ pc = "pad_ready"
    /\ IdleRules /\ IdleCsv /\ IdleBatch

ApplyZeroPad ==
    /\ mode = "pad" /\ pc = "pad_ready"
    /\ padOut' = MaskedApply("CITY_GATE" :> <<padIn>>, "CITY_GATE", "ZeroPad",
                             padWidth)["CITY_GATE"][1]
    /\ pc' = "pad_done"
    /\ UNCHANGED <<mode, build, padIn, padWidth, rulesVars, csvVars, batchVars>>

NextPad == ApplyZeroPad

SpecPad == InitPad /\ [][NextPad]_vars

---------------------------------------------------------------------------
\* Serialization and the quote cleanup pass.

\* csv.writer, QUOTE_MINIMAL: a field holding the delimiter, the quote
\* character or a character of the line terminator is enclosed in double
\* quotes with its double quotes doubled.
RECURSIVE DoubleQuotes(_)
DoubleQuotes(t) ==
    IF t = <<>> THEN <<>>
    ELSE (IF Head(t) = DQ THEN <<DQ, DQ>> ELSE <<Head(t)>>) \o DoubleQuotes(Tail(t))

CsvField(t) ==
    IF \/ Contains(t, COMMA) \/ Contains(t, DQ)
       \/ \E i \in 1..Len(build.linesep) : Contains(t, build.linesep[i])
    THEN <<DQ>> \o DoubleQuotes(t) \o <<DQ>>
    ELSE t

\* One line of the CSV: the fields of a row joined by ',' and terminated by
\* os.linesep.  cols is the column order, cellOf gives the text of a column.
RECURSIVE JoinFields(_)
JoinFields(fs) ==
    IF fs = <<>> THEN <<>>
    ELSE IF Len(fs) = 1 THEN Head(fs)
    ELSE Head(fs) \o <<COMMA>> \o JoinFields(Tail(fs))

CsvLine(fs) == JoinFields([k \in 1..Len(fs) |-> CsvField(fs[k])]) \o build.linesep

\* df.to_csv(output_file, index=False) for a row-set with the columns cols in
\* this order: the header line, then one line per row; a null cell is written
\* as the empty field.  A column name is written as one token.
RECURSIVE CsvRows(_, _, _)
CsvRows(d, cols, r) ==
    IF cols = <<>> \/ r > Len(d[cols[1]]) THEN <<>>
    ELSE CsvLine([k \in 1..Len(cols) |->
                     IF d[cols[k]][r].na THEN <<>> ELSE d[cols[k]][r].s])
         \o CsvRows(d, cols, r + 1)

to_csv(d, cols) == CsvLine([k \in 1..Len(cols) |-> <<cols[k]>>]) \o CsvRows(d, cols, 1)

\* open(input_file, 'r', encoding='utf-8').read(): text mode with universal
\* newlines, "\r\n" and a lone "\r" are read as "\n".
RECURSIVE ReadText(_)
ReadText(b) ==
    IF b = <<>> THEN <<>>
    ELSE IF Head(b) = CR
         THEN <<LF>> \o ReadText(IF Len(b) >= 2 /\ b[2] = LF
                                 THEN SubSeq(b, 3, Len(b)) ELSE Tail(b))
         ELSE <<Head(b)>> \o ReadText(Tail(b))

\* open(output_file, 'w', encoding='utf-8').write(text): text mode, every "\n"
\* is written as os.linesep.
RECURSIVE WriteText(_)
WriteText(t) ==
    IF t = <<>> THEN <<>>
    ELSE (IF Head(t) = LF THEN build.linesep ELSE <<Head(t)>>) \o WriteText(Tail(t))

\* content.replace('"""', '"'): str.replace scans from the left and resumes
\* after each occurrence it replaces.
RECURSIVE ReplaceTripleQuotes(_)
ReplaceTripleQuotes(t) ==
    IF Len(t) < 3 THEN t
    ELSE IF t[1] = DQ /\ t[2] = DQ /\ t[3] = DQ
         THEN <<DQ>> \o ReplaceTripleQuotes(SubSeq(t, 4, Len(t)))
         ELSE <<t[1]>> \o ReplaceTripleQuotes(Tail(t))

\* find_and_replace_quotes(input_file, output_file) when it runs to its end.
CleanedFile(input) == File(WriteText(ReplaceTripleQuotes(ReadText(input.data))))

CleanupAlphabet == {DQ, "a", CR, LF}

\* The cleanup pass alone, on an intermediate artifact of any content.
InitCleanup ==
    /\ mode = "cleanup"
    /\ build \in Builds
    /\ content \in {NoFile} \cup {File(t) : t \in Texts(CleanupAlphabet, MaxTextLen)}
    /\ output = NoFile
    /\ cellX = <<>> /\ wrapKind = "none"
    /\ pc = "cleanup_ready"
    /\ IdleRules /\ IdlePad /\ IdleBatch

\* The pass reads, substitutes and writes.
CleanupWrites ==
    /\ mode \in {"cleanup", "wrap"} /\ pc = "cleanup_ready"
    /\ content.exists
    /\ output' = CleanedFile(content)
    /\ pc' = "cleanup_done"
    /\ UNCHANGED <<mode, build, content, cellX, wrapKind, rulesVars, padVars, batchVars>>

\* os.path.exists(input_file) is false: logged, nothing written.
CleanupNotFound ==
    /\ mode \in {"cleanup", "wrap"} /\ pc = "cleanup_ready"
    /\ ~content.exists
    /\ pc' = "cleanup_missing"
    /\ UNCHANGED <<mode, build, content, output, cellX, wrapKind, rulesVars, padVars,
                   batchVars>>

\* An open() raises (the file is locked, the folder is read-only): caught and
\* logged by the handler, nothing written.
CleanupRaises ==
    /\ mode \in {"cleanup", "wrap"} /\ pc = "cleanup_ready"
    /\ content.exists
    /\ pc' = "cleanup_failed"
    /\ UNCHANGED <<mode, build, content, output, cellX, wrapKind, rulesVars, padVars,
                   batchVars>>

NextCleanup == CleanupWrites \/ CleanupNotFound \/ CleanupRaises

SpecCleanup == InitCleanup /\ [][NextCleanup]_vars

---------------------------------------------------------------------------
\* One wrapped cell through the pipeline of a file: the rule set wraps it,
\* to_csv writes the intermediate artifact, the cleanup pass writes the final
\* one.  wrapKind is the column the cell sits in.
WrapAlphabet == {"a", COMMA, DQ, CR, LF}
WrapColumns == {"CUSTOMER_NAME", "TX_SERV_SUPP", "CUST_NAME"}
CategoryOfColumn(col) == IF col = "CUST_NAME" THEN "usage" ELSE "enrollment"

InitWrap ==
    /\ mode = "wrap"
    /\ build \in Builds
    /\ cellX \in Texts(WrapAlphabet, MaxCellLen)
    /\ wrapKind \in WrapColumns
    /\ category = CategoryOfColumn(wrapKind)
    /\ df0 = (wrapKind :> <<Str(cellX)>>)
    /\ df = df0
    /\ applied = {}
    /\ content = NoFile /\ output = NoFile
    /\ pc = "loaded"
    /\ IdlePad /\ IdleBatch

\* transform_excel_data from the dispatch on: the rule set, then to_csv.
TransformAndSave ==
    /\ mode = "wrap" /\ pc = "loaded"
    /\ df' = IF category = "enrollment" THEN apply_enrollment_transforms(df)
             ELSE apply_usage_transforms(df)
    /\ applied' = 1..Len(BlocksOf(category))
    /\ content' = File(to_csv(df', <<wrapKind>>))
    /\ pc' = "cleanup_ready"
    /\ UNCHANGED <<mode, build, category, df0, output, cellX, wrapKind, padVars,
                   batchVars>>

NextWrap == TransformAndSave \/ CleanupWrites \/ CleanupRaises

SpecWrap == InitWrap /\ [][NextWrap]_vars

---------------------------------------------------------------------------
\* The batch loop of the main block.  An entry of the folder listing is what
\* the loop reads of its name: whether it passes the filter of step 3 (not a
\* directory, no leading '~', ends in .xlsx or .xls) and which keywords its
\* lower-cased name contains.  The folder holds no artifact of an earlier run.
Entries == [excel : BOOLEAN, enrollment : BOOLEAN, usage : BOOLEAN]

Listings == UNION {[1..n -> Entries] : n \in 0..MaxFiles}

\* Variant: a name with neither keyword falls through to the Usage rule set.
DispatchDefaultUsage(e) == IF e.enrollment THEN "enrollment" ELSE "usage"

\* if 'enrollment' in file_name_lower: ... elif 'usage' in file_name_lower: ...
\* else: return False
Dispatch(e) ==
    IF e.enrollment THEN "enrollment" ELSE IF e.usage THEN "usage" ELSE "none"

\* What the loop has done for an entry: the value transform_excel_data
\* returned and why, the rule set it applied, whether it wrote the
\* intermediate artifact, whether the intermediate and the final artifact
\* exist, how find_and_replace_quotes and os.remove ended, and whether the
\* entry was counted.
Untouched ==
    [ret |-> "none", why |-> "none", rules |-> "none", created |-> FALSE,
     inter |-> FALSE, final |-> FALSE, cleanup |-> "none", remove |-> "none",
     counted |-> FALSE]

InitBatch ==
    /\ mode = "batch"
    /\ build \in {b \in PosixBuilds : b.signAware}
    /\ files \in Listings
    /\ idx = 1
    /\ pc = "loop"
    /\ processed_count = 0
    /\ log = [i \in 1..Len(files) |-> Untouched]
    /\ IdleRules /\ IdlePad /\ IdleCsv

AtEntry == mode = "batch" /\ pc = "loop" /\ idx <= Len(files)
Rest == <<mode, build, files, rulesVars, padVars, csvVars>>

\* Step 3: directories, temporary files and non-Excel files are passed over.
SkipEntry ==
    /\ AtEntry /\ ~files[idx].excel
    /\ idx' = idx + 1
    /\ UNCHANGED <<pc, processed_count, log, Rest>>

\* transform_excel_data: pd.read_excel raises (file gone, unreadable): False.
ReadFails ==
    /\ AtEntry /\ files[idx].excel
    /\ log' = [log EXCEPT ![idx].ret = "False", ![idx].why = "read_error"]
    /\ idx' = idx + 1
    /\ UNCHANGED <<pc, processed_count, Rest>>

\* transform_excel_data: the name has neither keyword: warning, False.
Unrecognized ==
    /\ AtEntry /\ files[idx].excel
    /\ Dispatch(files[idx]) = "none"
    /\ log' = [log EXCEPT ![idx].ret = "False", ![idx].why = "unrecognized"]
    /\ idx' = idx + 1
    /\ UNCHANGED <<pc, processed_count, Rest>>

\* transform_excel_data: the rule set raises (KeyError or any Exception):
\* logged, False.
TransformRaises ==
    /\ AtEntry /\ files[idx].excel
    /\ Dispatch(files[idx]) # "none"
    /\ log' = [log EXCEPT ![idx].ret = "False", ![idx].why = "transform_error",
                          ![idx].rules = Dispatch(files[idx])]
    /\ idx' = idx + 1
    /\ UNCHANGED <<pc, processed_count, Rest>>

\* transform_excel_data: df.to_csv raises; the call stands outside every try,
\* so the exception leaves transform_excel_data and the loop.
SaveRaises ==
    /\ AtEntry /\ files[idx].excel
    /\ Dispatch(files[idx]) # "none"
    /\ log' = [log EXCEPT ![idx].rules = Dispatch(files[idx])]
    /\ pc' = "crashed"
    /\ UNCHANGED <<idx, processed_count, Rest>>

\* transform_excel_data: rule set applied, intermediate artifact written, True.
TransformSucceeds ==
    /\ AtEntry /\ files[idx].excel
    /\ Dispatch(files[idx]) # "none"
    /\ log' = [log EXCEPT ![idx].ret = "True", ![idx].rules = Dispatch(files[idx]),
                          ![idx].created = TRUE, ![idx].inter = TRUE]
    /\ pc' = "cleanup"
    /\ UNCHANGED <<idx, processed_count, Rest>>

\* Another process removes the intermediate artifact before the cleanup pass
\* looks for it.
IntermediateVanishes ==
    /\ mode = "batch" /\ pc = "cleanup" /\ log[idx].inter
    /\ log' = [log EXCEPT ![idx].inter = FALSE]
    /\ UNCHANGED <<idx, pc, processed_count, Rest>>

\* find_and_replace_quotes writes the final artifact.
CleanupDone ==
    /\ mode = "batch" /\ pc = "cleanup" /\ log[idx].inter
    /\ log' = [log EXCEPT ![idx].cleanup = "done", ![idx].final = TRUE]
    /\ pc' = "count"
    /\ UNCHANGED <<idx, processed_count, Rest>>

\* find_and_replace_quotes finds no intermediate artifact: logged, return.
CleanupMissing ==
    /\ mode = "batch" /\ pc = "cleanup" /\ ~log[idx].inter
    /\ log' = [log EXCEPT ![idx].cleanup = "missing"]
    /\ pc' = "count"
    /\ UNCHANGED <<idx, processed_count, Rest>>

\* find_and_replace_quotes raises inside its try: logged, nothing written.
CleanupFails ==
    /\ mode = "batch" /\ pc = "cleanup" /\ log[idx].inter
    /\ log' = [log EXCEPT ![idx].cleanup = "failed"]
    /\ pc' = "count"
    /\ UNCHANGED <<idx, processed_count, Rest>>

\* processed_count += 1
Count ==
    /\ mode = "batch" /\ pc = "count"
    /\ processed_count' = processed_count + 1
    /\ log' = [log EXCEPT ![idx].counted = TRUE]
    /\ pc' = "remove"
    /\ UNCHANGED <<idx, Rest>>

\* os.remove(intermediate_csv_filename) succeeds.
RemoveIntermediate ==
    /\ mode = "batch" /\ pc = "remove" /\ log[idx].inter
    /\ log' = [log EXCEPT ![idx].inter = FALSE, ![idx].remove = "removed"]
    /\ idx' = idx + 1
    /\ pc' = "loop"
    /\ UNCHANGED <<processed_count, Rest>>

\* os.remove raises OSError (the artifact is absent or locked): logged.
RemoveFails ==
    /\ mode = "batch" /\ pc = "remove"
    /\ log' = [log EXCEPT ![idx].remove = "oserror"]
    /\ idx' = idx + 1
    /\ pc' = "loop"
    /\ UNCHANGED <<processed_count, Rest>>

\* The listing is exhausted: the count is reported.
Report ==
    /\ mode = "batch" /\ pc = "loop" /\ idx > Len(files)
    /\ pc' = "done"
    /\ UNCHANGED <<idx, processed_count, log, Rest>>

Next ==
    \/ SkipEntry \/ ReadFails \/ Unrecognized \/ TransformRaises \/ SaveRaises
    \/ TransformSucceeds \/ IntermediateVanishes \/ CleanupDone \/ CleanupMissing
    \/ CleanupFails \/ Count \/ RemoveIntermediate \/ RemoveFails \/ Report

Init == InitBatch

Spec == Init /\ [][Next]_vars

---------------------------------------------------------------------------
\* Claims about the rule engine (SpecRules).

Categories == {"enrollment", "usage"}
Rows(d, c) == 1..Len(d[c])
Targets(cat) == {RulesIn(cat)[k].col : k \in 1..Len(RulesIn(cat))}
PresentRules(cat, d) == SelectSeq(RulesIn(cat), LAMBDA r : r.col \in DOMAIN d)

\* C1: in both rule sets (category ranges over both), for every rule, applying a rule whose target
\* column is absent from the row-set raises nothing and leaves the row-set
\* unchanged: same column set, every cell equal to its value before the rule.
\* Hence a whole rule set changes the row-set exactly as its rules with a
\* present column do, and creates no column.
C1_AbsentColumnNoOp ==
    /\ \A k \in 1..Len(RulesIn(category)) :
          LET r == RulesIn(category)[k]
          IN  r.col \notin DOMAIN df =>
                 LET after == ApplyRule(r, df)
                 IN  /\ DOMAIN after = DOMAIN df
                     /\ \A c \in DOMAIN df : after[c] = df[c]
    /\ pc = "transformed" =>
          /\ DOMAIN df = DOMAIN df0
          /\ df = ApplyBlock(PresentRules(category, df0), df0)

\* C1 witness: a rule set has run on a row-set that lacks a column one of its
\* rules targets, while another of its rules found its column and changed it.
C1_Witness ==
    /\ pc = "transformed"
    /\ \E c \in Targets(category) : c \notin DOMAIN df0
    /\ \E c \in Targets(category) : c \in DOMAIN df0 /\ df[c] # df0[c]

\* C2: every cell that is null before a rule set is applied is still null
\* afterwards, whatever the type of the rule that targets its column; the
\* same holds of every single rule of both rule sets.
C2_NullStaysNull ==
    /\ pc = "transformed" =>
          \A c \in DOMAIN df0 : \A r \in Rows(df0, c) : df0[c][r].na => df[c][r].na
    /\ \A k \in 1..Len(RulesIn(category)) :
          LET after == ApplyRule(RulesIn(category)[k], df)
          IN  \A c \in DOMAIN df : \A r \in Rows(df, c) : df[c][r].na => after[c][r].na

\* C2 witness: a rule set has run on a row-set with a null cell in a targeted
\* column and has rewritten a non-null cell of a targeted column.
C2_Witness ==
    /\ pc = "transformed"
    /\ \E c \in Targets(category) \cap DOMAIN df0 : \E r \in Rows(df0, c) :
          df0[c][r].na /\ df[c][r].na
    /\ \E c \in Targets(category) \cap DOMAIN df0 : \E r \in Rows(df0, c) :
          ~df0[c][r].na /\ df[c][r] # df0[c][r]

PairwiseDisjoint(rules) ==
    \A i, j \in 1..Len(rules) : i # j => rules[i].col # rules[j].col

\* C10: within each rule set the target columns of the rules are pairwise
\* distinct, so a cell is rewritten by at most one rule, and whatever the order
\* in which the blocks of the rule set are applied the result is the one the
\* source's order gives.
C10_OrderIndependent ==
    /\ PairwiseDisjoint(EnrollmentRules)
    /\ PairwiseDisjoint(UsageRules)
    /\ pc = "transformed" =>
          df = IF category = "enrollment" THEN apply_enrollment_transforms(df0)
               ELSE apply_usage_transforms(df0)

\* C10 witness: every block has been applied, in some order, to a row-set in
\* which two columns are targeted by rules of different types and were rewritten.
C10_Witness ==
    /\ mode = "anyorder" /\ pc = "transformed"
    /\ \E c1, c2 \in DOMAIN df0 :
          /\ c1 # c2 /\ df[c1] # df0[c1] /\ df[c2] # df0[c2]
          /\ \E i, j \in 1..Len(RulesIn(category)) :
                /\ RulesIn(category)[i].col = c1 /\ RulesIn(category)[j].col = c2
                /\ RulesIn(category)[i].type # RulesIn(category)[j].type

---------------------------------------------------------------------------
\* Claims about ZeroPad (SpecPad).

\* b is t with everything from its first '.' onward dropped.
IsBeforeFirstDot(b, t) ==
    /\ Len(b) <= Len(t)
    /\ b = SubSeq(t, 1, Len(b))
    /\ ~Contains(b, DOT)
    /\ Len(b) = Len(t) \/ t[Len(b) + 1] = DOT

Prefixes(t) == {SubSeq(t, 1, n) : n \in 0..Len(t)}

\* out is b left-padded with '0' to w characters, b itself if it has w or more.
IsLeftPadded(out, b, w) ==
    /\ Len(out) = IF Len(b) >= w THEN Len(b) ELSE w
    /\ \A i \in 1..(Len(out) - Len(b)) : out[i] = ZERO
    /\ SubSeq(out, Len(out) - Len(b) + 1, Len(out)) = b

\* out is b with the zeros that bring it to w characters put after b's sign.
IsPaddedAfterSign(out, b, w) ==
    /\ Len(out) = w
    /\ out[1] = b[1]
    /\ \A i \in 2..(w - Len(b) + 1) : out[i] = ZERO
    /\ SubSeq(out, w - Len(b) + 2, w) = Tail(b)

IsSigned(b) == Len(b) > 0 /\ b[1] \in {"+", "-"}

\* C3 as stated: ZeroPad(width) on any non-null cell yields the cell's text
\* with everything from the first '.' onward dropped, left-padded with '0' to
\* exactly width characters, and unpadded, never cut, if it already has width
\* characters or more.
C3_AsStated ==
    (pc = "pad_done" /\ ~padIn.na) =>
        /\ ~padOut.na
        /\ \E b \in Prefixes(padIn.s) :
              IsBeforeFirstDot(b, padIn.s) /\ IsLeftPadded(padOut.s, b, padWidth)

\* C3 amended: as stated for every text that, cut at its first '.', does not
\* begin with '+' or '-'; a signed text shorter than width gets its zeros after
\* the sign where pandas' str.zfill is sign-aware (pandas >= 1.5) and on the
\* left otherwise; no text is ever cut.
C3_ZeroPad ==
    (pc = "pad_done" /\ ~padIn.na) =>
        /\ ~padOut.na
        /\ \E b \in Prefixes(padIn.s) :
              /\ IsBeforeFirstDot(b, padIn.s)
              /\ IF IsSigned(b) /\ Len(b) < padWidth /\ build.signAware
                 THEN IsPaddedAfterSign(padOut.s, b, padWidth)
                 ELSE IsLeftPadded(padOut.s, b, padWidth)

\* C3 witness: ZeroPad(4) has turned "7.0" into "0007".
C3_Witness ==
    /\ pc = "pad_done" /\ padWidth = 4
    /\ padIn = Str(<<"7", ".", "0">>)
    /\ padOut = Str(<<"0", "0", "0", "7">>)

---------------------------------------------------------------------------
\* Claims about the cleanup pass (SpecCleanup).

\* Length of the run of double quotes that starts at position i of t.
RECURSIVE QuoteRun(_, _)
QuoteRun(t, i) == IF i > Len(t) \/ t[i] # DQ THEN 0 ELSE 1 + QuoteRun(t, i + 1)

\* t with every maximal run of n double quotes shortened to n \div 3 + n % 3 of
\* them: what replacing each """ by ", left to right without overlap and
\* without rescanning, leaves of a run; every other character is kept.
RECURSIVE CollapseRuns(_, _)
CollapseRuns(t, i) ==
    IF i > Len(t) THEN <<>>
    ELSE IF t[i] = DQ
         THEN LET n == QuoteRun(t, i)
              IN  Repeat(DQ, (n \div 3) + (n % 3)) \o CollapseRuns(t, i + n)
         ELSE <<t[i]>> \o CollapseRuns(t, i + 1)

\* C4: the cleanup pass writes to the output exactly the input text with every
\* occurrence of """ replaced by ", scanning left to right without overlap, all
\* other characters unchanged; six double quotes become two.
C4_CleanupExact ==
    pc = "cleanup_done" =>
        /\ output = File(CollapseRuns(content.data, 1))
        /\ content.data = Repeat(DQ, 6) => output.data = Repeat(DQ, 2)

\* The substitution itself is as C4 says: on an input without carriage return
\* or line feed the output is the input with its quote runs collapsed.
C4_OnNewlineFreeText ==
    (pc = "cleanup_done" /\ ~Contains(content.data, CR) /\ ~Contains(content.data, LF))
        => output = File(CollapseRuns(content.data, 1))

\* C4 witness: the pass has turned a run of six double quotes into two.
C4_Witness ==
    /\ pc = "cleanup_done"
    /\ content.data = Repeat(DQ, 6)
    /\ output.data = <<DQ, DQ>>

---------------------------------------------------------------------------
\* Claims about the wrap / serialize / cleanup round trip (SpecWrap).

WrappedField(col, x) ==
    IF col = "TX_SERV_SUPP" THEN <<DQ, SQ>> \o x \o <<SQ, DQ>>
    ELSE <<DQ>> \o x \o <<DQ>>

\* C9: for every non-null cell text X without a double quote, the field of a
\* QuoteWrap column in the final output is exactly "X" and that of a CustomWrap
\* column exactly "'X'" (the final output is the header line and that field's
\* line).
C9_RoundTrip ==
    (mode = "wrap" /\ pc = "cleanup_done" /\ ~Contains(cellX, DQ)) =>
        output = File(<<wrapKind>> \o build.linesep
                      \o WrappedField(wrapKind, cellX) \o build.linesep)

\* The round trip is as C9 says for a cell text that holds neither a double
\* quote nor a carriage return or line feed.
C9_OnNewlineFreeText ==
    (/\ mode = "wrap" /\ pc = "cleanup_done"
     /\ ~Contains(cellX, DQ) /\ ~Contains(cellX, CR) /\ ~Contains(cellX, LF)) =>
        output = File(<<wrapKind>> \o build.linesep
                      \o WrappedField(wrapKind, cellX) \o build.linesep)

\* C9 witness: a CustomWrap cell a,a was serialized as """'a,a'""" and cleaned
\* to "'a,a'".
C9_Witness ==
    /\ mode = "wrap" /\ pc = "cleanup_done"
    /\ wrapKind = "TX_SERV_SUPP" /\ cellX = <<"a", COMMA, "a">>
    /\ content.data = <<"TX_SERV_SUPP">> \o build.linesep
                      \o <<DQ, DQ, DQ, SQ, "a", COMMA, "a", SQ, DQ, DQ, DQ>>
                      \o build.linesep
    /\ output.data = <<"TX_SERV_SUPP">> \o build.linesep
                     \o <<DQ, SQ, "a", COMMA, "a", SQ, DQ>> \o build.linesep

---------------------------------------------------------------------------
\* Claims about the batch loop (Spec).

Positions == 1..Len(files)

\* C5: for every file the loop processes, the intermediate artifact is created
\* by the transform step, is deleted when the file's pipeline completes
\* successfully, and is left in place when the cleanup pass fails.
C5_IntermediateLifecycle ==
    mode = "batch" => \A i \in Positions :
        /\ log[i].ret = "True" => log[i].created
        /\ (i < idx /\ log[i].cleanup = "done" /\ log[i].remove = "removed")
              => ~log[i].inter
        /\ (i < idx /\ log[i].cleanup = "failed") => log[i].inter

\* C6: no exception propagates out of the batch loop, and when the loop ends
\* every spreadsheet entry of the listing has been given to the pipeline.
C6_FailuresContained ==
    mode = "batch" =>
        /\ pc # "crashed"
        /\ pc = "done" => \A i \in Positions : files[i].excel => log[i].ret # "none"

\* C7: when the loop ends, processed_count is the number of input files for
\* which the final artifact was produced.
C7_CountIsFinals ==
    (mode = "batch" /\ pc = "done") =>
        processed_count = Cardinality({i \in Positions : log[i].final})

IsUnrecognized(e) == e.excel /\ ~e.enrollment /\ ~e.usage

\* C8: a spreadsheet entry whose name holds neither keyword is skipped: no rule
\* set is applied to it, transform_excel_data returns False for it, neither
\* artifact is written for it, it is not counted (processed_count counts the
\* counted entries), and the loop goes on to the next entry: it never enters
\* the rest of the pipeline for it and never stops at it.
C8_UnrecognizedSkipped ==
    mode = "batch" =>
        /\ processed_count = Cardinality({i \in Positions : log[i].counted})
        /\ \A i \in Positions : IsUnrecognized(files[i]) =>
              /\ log[i].rules = "none"
              /\ ~log[i].created /\ ~log[i].inter /\ ~log[i].final
              /\ ~log[i].counted
              /\ log[i].ret \in {"none", "False"}
              /\ i < idx => log[i].ret = "False"
              /\ idx = i => pc = "loop"

\* C8 witness: an unrecognized entry was read and skipped, and an entry after
\* it went through the pipeline and was counted.
C8_Witness ==
    /\ mode = "batch"
    /\ \E i, j \in Positions :
          /\ i < j
          /\ IsUnrecognized(files[i]) /\ log[i].why = "unrecognized"
          /\ log[j].counted /\ log[j].final

===========================================================================
